---- MODULE Spec2Model ----
(***************************************************************************)
(* Model of src/src/browser.py: the Browser application (a Flask app on    *)
(* Android), its activity-result callback and its three routes.            *)
(*                                                                         *)
(* Python strings that hold a URI are modelled as the tuple of the URI's   *)
(* path segments (the authority is fixed), Python None as the tuple None,  *)
(* and a Java Uri object as a record wrapping that tuple.                  *)
(***************************************************************************)
EXTENDS Integers, Sequences, FiniteSets, TLC

(* ---------------------------------------------------------------------- *)
(* Bounds of the model.                                                    *)
(* ---------------------------------------------------------------------- *)

\* longest result set a provider query returns
MaxChildren == 2
\* most consent prompts left unanswered at once
MaxPrompts == 2

(* ---------------------------------------------------------------------- *)
(* Platform constants.                                                     *)
(* ---------------------------------------------------------------------- *)

OPEN_DIRECTORY_REQUEST_CODE == 61726

\* a request code of some unrelated activity result
OTHER_REQUEST_CODE == OPEN_DIRECTORY_REQUEST_CODE + 1

RESULT_OK == -1

FLAG_GRANT_READ_URI_PERMISSION == 1

MIME_TYPE_DIR == "vnd.android.document/directory"

\* a null MIME type column
NullMime == "<null>"

(* ---------------------------------------------------------------------- *)
(* URIs.                                                                   *)
(* ---------------------------------------------------------------------- *)

\* Python None where a string is expected
None == <<"None">>

\* the empty string
EmptyStr == <<>>

TreeIds == {"t1", "t2"}

\* content://authority/tree/<t>
TreeUriStr(t) == <<"tree", t>>

\* content://authority/tree/<t>/document/<d>
DocInTreeUriStr(t, d) == <<"tree", t, "document", d>>

\* a string that is no document URI at all
JunkStr == <<"junk">>

\* a Java Uri object, and the null reference
NullUri == [null |-> TRUE, path |-> <<>>]

\* Uri.parse(str): never fails, the string is kept as it is
UriParse(s) == [null |-> FALSE, path |-> s]

\* uri.toString()
UriToString(u) == u.path

\* DocumentsContract.isTreeUri: the path is tree/<id>[/...]
IsTreeUri(u) == ~u.null /\ Len(u.path) >= 2 /\ u.path[1] = "tree"

\* DocumentsContract.isDocumentUri on a tree-based URI: tree/<id>/document/<id>
IsDocumentInTreeUri(u) == IsTreeUri(u) /\ Len(u.path) = 4 /\ u.path[3] = "document"

\* DocumentsContract.getTreeDocumentId(uri); defined where IsTreeUri(u)
getTreeDocumentId(u) == u.path[2]

\* DocumentsContract.getDocumentId(uri); defined where IsDocumentInTreeUri(u)
getDocumentId(u) == u.path[4]

\* DocumentsContract.buildDocumentUriUsingTree(treeUri, documentId)
buildDocumentUriUsingTree(u, d) == UriParse(DocInTreeUriStr(getTreeDocumentId(u), d))

\* DocumentsContract.buildChildDocumentsUriUsingTree(treeUri, parentDocumentId)
buildChildDocumentsUriUsingTree(u, d) ==
    UriParse(<<"tree", getTreeDocumentId(u), "document", d, "children">>)

RECURSIVE BitAnd(_, _)
\* the & of two non-negative ints
BitAnd(a, b) ==
    IF a = 0 \/ b = 0 THEN 0
    ELSE (a % 2) * (b % 2) + 2 * BitAnd(a \div 2, b \div 2)

(* ---------------------------------------------------------------------- *)
(* Platform calls made by an operation, in order.                          *)
(* ---------------------------------------------------------------------- *)

\* one call: its name, its URI argument, its integer argument, how it ended
\* ("ok", or what it returned or raised) and the rows it returned
CallRows(name, uriStr, n, out, rows) ==
    [call |-> name, uri |-> uriStr, n |-> n, out |-> out, rows |-> rows]

Call(name, uriStr, n, out) == CallRows(name, uriStr, n, out, <<>>)

\* the positions of the calls of one name in a log
Calls(l, name) == {i \in DOMAIN l : l[i].call = name}

\* the URL url_for('index', uri=s) builds: the root listing with a uri query
url_for_index(s) == <<"/", "uri">> \o s

(* ---------------------------------------------------------------------- *)
(* State.                                                                  *)
(* ---------------------------------------------------------------------- *)

VARIABLES
    prefs,      \* the value of 'tree_uri' in the shared preferences, or None
    perms,      \* URI strings whose read permission the platform has persisted
    awaiting,   \* consent prompts started and not yet answered
    op,         \* the operation that ran last
    args,       \* its arguments
    resp,       \* what it returned or raised
    log,        \* the platform calls it made, in order, with their outcomes
    repeated,   \* history: the last operation was an activity result delivered
                \* with the arguments of the operation before it
    answering   \* history: the last operation was an activity result with the
                \* open-directory request code, delivered while a prompt that
                \* this Browser started was open

vars == <<prefs, perms, awaiting, op, args, resp, log, repeated, answering>>

(* ---------------------------------------------------------------------- *)
(* Values of the state.                                                    *)
(* ---------------------------------------------------------------------- *)

\* the intent of an activity result; NullIntent is the null reference
NullIntent == [null |-> TRUE, data |-> NullUri, flags |-> 0]

Intent(data, flags) == [null |-> FALSE, data |-> data, flags |-> flags]

\* the template's content argument; {} is EmptyContent
EmptyContent == [empty |-> TRUE, name |-> "", directories |-> <<>>, files |-> <<>>]

Response(status, raised, content, body) ==
    [status |-> status, raised |-> raised, content |-> content, body |-> body]

NoArgs == [uri |-> None, request |-> 0, result |-> 0, intent |-> NullIntent]

\* the part of the state an operation of Browser works on
BrowserState(p, q) == [prefs |-> p, perms |-> q, log |-> <<>>, raised |-> "none"]

Raise(st, err) == [st EXCEPT !.raised = err]

Logged(st, c) == [st EXCEPT !.log = Append(@, c)]

(* ---------------------------------------------------------------------- *)
(* Browser: the preferences.                                               *)
(* ---------------------------------------------------------------------- *)

\* Browser.get_default_tree_uri
get_default_tree_uri(st) == st.prefs

\* What Editor.commit() returns:
\*   "true"   the new value was written to persistent storage
\*   "false"  the write to storage failed; the edit is in the preferences
\*            object of this process all the same
StoreOutcomes == {"true", "false"}

\* a set_default_tree_uri that keeps a default tree it already has
set_default_tree_uri_once(uri, store, st) ==
    LET s == UriToString(uri)
        called == Logged(Logged(st, Call("putString", s, 0, "ok")),
                         Call("commit", s, 0, store)) IN
    IF st.prefs = None THEN [called EXCEPT !.prefs = s] ELSE called

\* Browser.set_default_tree_uri; returns nothing, commit()'s result is dropped
set_default_tree_uri(uri, store, st) ==
    LET s == UriToString(uri) IN
    [Logged(Logged(st, Call("putString", s, 0, "ok")), Call("commit", s, 0, store))
        EXCEPT !.prefs = s]

(* ---------------------------------------------------------------------- *)
(* Browser.on_activity_result.                                             *)
(* ---------------------------------------------------------------------- *)

\* a guard that takes every activity result for the open-directory request's
IsAnyRequest(request) == request = request

\* line 52: the result answers the open-directory request
IsOpenDirectoryRequest(request) == request = OPEN_DIRECTORY_REQUEST_CODE

\* a test that takes only a missing result intent for a cancellation
IsWithoutIntent(result, intent) == intent.null

\* line 54: the user cancelled, or there is no result intent
IsCancelled(result, intent) == result # RESULT_OK \/ intent.null

\* the intent's flags passed on unmasked
AllFlags(flags) == flags

\* line 64: the intent's flags masked to the read bit
ReadFlags(flags) == BitAnd(flags, FLAG_GRANT_READ_URI_PERMISSION)

PermOutcomes == {"ok", "raise"}

\* ContentResolver.takePersistableUriPermission(uri, flags)
takePersistableUriPermission(uri, flags, perm, st) ==
    LET s == UriToString(uri)
        called == Logged(st, Call("takePersistableUriPermission", s, flags, perm)) IN
    IF perm = "raise"
    THEN Raise(called, "JavaException")
    ELSE IF BitAnd(flags, FLAG_GRANT_READ_URI_PERMISSION) # 0
         THEN [called EXCEPT !.perms = @ \cup {s}]
         ELSE called

\* activity.loadUrl(url)
loadUrl(url, st) == Logged(st, Call("loadUrl", url, 0, "ok"))

\* a choose_directory that puts the former default tree back when the
\* permission cannot be persisted
choose_directory_or_rollback(intent, store, perm, st) ==
    LET uri == intent.data IN
    IF ~IsTreeUri(uri) THEN Raise(st, "JavaException")
    ELSE LET s1 == set_default_tree_uri(uri, store, st)
             flags == ReadFlags(intent.flags)
             s2 == takePersistableUriPermission(uri, flags, perm, s1) IN
         IF s2.raised # "none" THEN [s2 EXCEPT !.prefs = st.prefs]
         ELSE loadUrl(url_for_index(UriToString(uri)), s2)

\* lines 57-69: the directory the user chose is made the default tree.
\* getTreeDocumentId raises on a null URI (NullPointerException) and on a URI
\* that is no tree URI (IllegalArgumentException)
choose_directory(intent, store, perm, st) ==
    LET uri == intent.data IN
    IF ~IsTreeUri(uri) THEN Raise(st, "JavaException")
    ELSE LET s1 == set_default_tree_uri(uri, store, st)
             flags == ReadFlags(intent.flags)
             s2 == takePersistableUriPermission(uri, flags, perm, s1) IN
         IF s2.raised # "none" THEN s2
         ELSE loadUrl(url_for_index(UriToString(uri)), s2)

\* an on_activity_result that does nothing when the chosen directory is the
\* default tree already
on_activity_result_if_new(request, result, intent, store, perm, st) ==
    IF ~IsOpenDirectoryRequest(request) THEN st
    ELSE IF IsCancelled(result, intent) THEN st
    ELSE IF ~intent.data.null /\ UriToString(intent.data) = get_default_tree_uri(st)
    THEN st
    ELSE choose_directory(intent, store, perm, st)

\* Browser.on_activity_result
on_activity_result(request, result, intent, store, perm, st) ==
    IF ~IsOpenDirectoryRequest(request) THEN st
    ELSE IF IsCancelled(result, intent) THEN st
    ELSE choose_directory(intent, store, perm, st)

\* an open_directory that starts the prompt under another request code
open_directory_other_code(st) ==
    Logged(st, Call("startActivityForResult", None, OTHER_REQUEST_CODE, "ok"))

\* Browser.open_directory
open_directory(st) ==
    Logged(st, Call("startActivityForResult", None, OPEN_DIRECTORY_REQUEST_CODE, "ok"))

(* ---------------------------------------------------------------------- *)
(* Browser: trees and listings.                                            *)
(* ---------------------------------------------------------------------- *)

\* a test that takes only '' for false
NotEmpty(s) == s # EmptyStr

\* Python truth of an optional string: None and '' are false
Truthy(s) == s # None /\ s # EmptyStr

\* DocumentFile.fromTreeUri(activity, uri).getUri(); defined where IsTreeUri(u)
fromTreeUri(u) ==
    buildDocumentUriUsingTree(
        u, IF IsDocumentInTreeUri(u) THEN getDocumentId(u) ELSE getTreeDocumentId(u))

\* Browser.get_tree(uri).getUri() on a string: raises where the URI is no tree URI
get_tree(s, st) ==
    LET u == UriParse(s)
        out == IF IsTreeUri(u) THEN "ok" ELSE "raise"
        called == Logged(st, Call("fromTreeUri", s, 0, out)) IN
    IF IsTreeUri(u)
    THEN [st |-> called, uri |-> fromTreeUri(u)]
    ELSE [st |-> Raise(called, "JavaException"), uri |-> NullUri]

\* one row of the cursor, as list_files reads it (lines 147-153)
Row(name, id, last_modified, mime_type, size) ==
    [name |-> name, id |-> id, last_modified |-> last_modified,
     mime_type |-> mime_type, size |-> size]

\* line 154-157: the entry of a row, with the URI built from the tree and the id
Entry(tree_doc_uri, row) ==
    [name |-> row.name, id |-> row.id, last_modified |-> row.last_modified,
     mime_type |-> row.mime_type, size |-> row.size,
     uri |-> UriToString(buildDocumentUriUsingTree(tree_doc_uri, row.id))]

\* What ContentResolver.query does:
\*   "rows"   a cursor over rows
\*   "raise"  a SecurityException or another JavaException
\*   "null"   a null cursor, on which the Python code fails
QueryResult(kind, rows) == [kind |-> kind, rows |-> rows]

\* a list_files that catches the provider's failure and lists nothing
list_files_or_nothing(tree_doc_uri, q, st) ==
    LET tree_doc_id == getDocumentId(tree_doc_uri)
        children_uri == buildChildDocumentsUriUsingTree(tree_doc_uri, tree_doc_id)
        called == Logged(st, CallRows("query", UriToString(children_uri), 0,
                                      q.kind, q.rows)) IN
    [st |-> called,
     results |-> IF q.kind = "rows"
                 THEN [i \in 1..Len(q.rows) |-> Entry(tree_doc_uri, q.rows[i])]
                 ELSE <<>>]

\* Browser.list_files: one query, every row in the cursor's order
list_files(tree_doc_uri, q, st) ==
    LET tree_doc_id == getDocumentId(tree_doc_uri)
        children_uri == buildChildDocumentsUriUsingTree(tree_doc_uri, tree_doc_id)
        called == Logged(st, CallRows("query", UriToString(children_uri), 0,
                                      q.kind, q.rows)) IN
    IF q.kind = "raise" THEN [st |-> Raise(called, "JavaException"), results |-> <<>>]
    ELSE IF q.kind = "null" THEN [st |-> Raise(called, "AttributeError"), results |-> <<>>]
    ELSE [st |-> called,
          results |-> [i \in 1..Len(q.rows) |-> Entry(tree_doc_uri, q.rows[i])]]

(* ---------------------------------------------------------------------- *)
(* Route / (index).                                                        *)
(* ---------------------------------------------------------------------- *)

\* datetime.fromtimestamp(ms / 1000): seconds and microseconds
FromTimestampMs(ms) == [seconds |-> ms \div 1000, microseconds |-> (ms % 1000) * 1000]

\* a directory test by name: no extension
IsDirectoryName(doc) == doc.name = "sub"

\* line 179
IsDirectoryDoc(doc) == doc.mime_type = MIME_TYPE_DIR

\* lines 180-183
DirectoryItem(doc) == [name |-> doc.name, uri |-> doc.uri]

\* lines 187-195
FileItem(doc) ==
    [name |-> doc.name, uri |-> doc.uri,
     last_modified |-> FromTimestampMs(doc.last_modified), size |-> doc.size]

\* a classification that walks the listing from its last document to its first
ClassifiedBackwards(docs) ==
    LET backwards == [i \in 1..Len(docs) |-> docs[Len(docs) + 1 - i]]
        dirs == SelectSeq(backwards, IsDirectoryDoc)
        others == SelectSeq(backwards, LAMBDA doc : ~IsDirectoryDoc(doc)) IN
    [directories |-> [i \in 1..Len(dirs) |-> DirectoryItem(dirs[i])],
     files |-> [i \in 1..Len(others) |-> FileItem(others[i])]]

RECURSIVE Classified(_)
\* lines 176-195: the loop over the listing, appending to directories or files
Classified(docs) ==
    IF docs = <<>> THEN [directories |-> <<>>, files |-> <<>>]
    ELSE LET sofar == Classified(SubSeq(docs, 1, Len(docs) - 1))
             doc == docs[Len(docs)] IN
         IF IsDirectoryDoc(doc)
         THEN [sofar EXCEPT !.directories = Append(@, DirectoryItem(doc))]
         ELSE [sofar EXCEPT !.files = Append(@, FileItem(doc))]

\* a selection that makes the uri argument the default tree
RememberedUri(arg, st) ==
    IF ~Truthy(arg)
    THEN [st |-> Logged(st, Call("getString", None, 0, "ok")),
          uri |-> get_default_tree_uri(st)]
    ELSE [st |-> [st EXCEPT !.prefs = arg], uri |-> arg]

\* a selection that prefers the default tree URI to the argument
DefaultFirstUri(arg, st) ==
    IF get_default_tree_uri(st) # None
    THEN [st |-> Logged(st, Call("getString", None, 0, "ok")),
          uri |-> get_default_tree_uri(st)]
    ELSE [st |-> Logged(st, Call("getString", None, 0, "ok")), uri |-> arg]

\* lines 169-171: the uri argument, or the default tree URI when it is not truthy
SelectedUri(arg, st) ==
    IF ~Truthy(arg)
    THEN [st |-> Logged(st, Call("getString", None, 0, "ok")),
          uri |-> get_default_tree_uri(st)]
    ELSE [st |-> st, uri |-> arg]

\* what the handler hands back: an exception leaves Flask to answer 500
Raised(st) == [st |-> st, resp |-> Response(500, st.raised, EmptyContent, "")]

Rendered(st, content) == [st |-> st, resp |-> Response(200, "none", content, "")]

\* index()
index(arg, q, st) ==
    LET sel == SelectedUri(arg, st) IN
    IF ~Truthy(sel.uri) THEN Rendered(sel.st, EmptyContent)
    ELSE LET tree == get_tree(sel.uri, sel.st) IN
         IF tree.st.raised # "none" THEN Raised(tree.st)
         ELSE LET listed == list_files(tree.uri, q, tree.st) IN
              IF listed.st.raised # "none" THEN Raised(listed.st)
              ELSE LET lists == Classified(listed.results) IN
                   Rendered(listed.st,
                            [empty |-> FALSE,
                             name |-> getDocumentId(tree.uri),
                             directories |-> lists.directories,
                             files |-> lists.files])

(* ---------------------------------------------------------------------- *)
(* Route /view (view_file).                                                *)
(* ---------------------------------------------------------------------- *)

\* What activity.startActivity does with the view intent
ViewOutcomes == {"started", "ActivityNotFoundException", "SecurityException"}

\* a view_file that answers False to every exception of startActivity
browser_view_file_catch_all(s, view, st) ==
    LET called == Logged(st, Call("startActivity", s, FLAG_GRANT_READ_URI_PERMISSION,
                                  view)) IN
    [st |-> called, ret |-> view = "started"]

\* Browser.view_file
browser_view_file(s, view, st) ==
    LET called == Logged(st, Call("startActivity", s, FLAG_GRANT_READ_URI_PERMISSION,
                                  view)) IN
    IF view = "started" THEN [st |-> called, ret |-> TRUE]
    ELSE IF view = "ActivityNotFoundException" THEN [st |-> called, ret |-> FALSE]
    ELSE [st |-> Raise(called, "JavaException"), ret |-> FALSE]

\* an allow-list that takes PDF documents for text too
text_and_pdf_doc_types == {"application/json", "text/plain", "application/pdf"}

\* line 230-233
text_doc_types == {"application/json", "text/plain"}

\* What opening and reading the document gives: its bytes, or "raise"
ReadOutcomes == {"hello", "raise"}

\* a test that takes no request for one without uri
NeverMissing(arg) == FALSE

\* line 221: there is no uri argument
MissingUri(arg) == arg = None

\* view_file()
view_file(arg, view, doc_type, read, st) ==
    IF MissingUri(arg)
    THEN [st |-> st, resp |-> Response(400, "none", EmptyContent, "No uri argument specified")]
    ELSE LET viewed == browser_view_file(arg, view, st) IN
         IF viewed.st.raised # "none" THEN Raised(viewed.st)
         ELSE IF viewed.ret
         THEN [st |-> viewed.st, resp |-> Response(204, "none", EmptyContent, "")]
         ELSE LET typed == Logged(viewed.st, Call("getType", arg, 0, doc_type)) IN
              IF doc_type \in text_doc_types
              THEN LET opened == Logged(typed, Call("openAssetFileDescriptor", arg, 0,
                                                    IF read = "raise" THEN "raise"
                                                    ELSE "ok")) IN
                   IF read = "raise" THEN Raised(Raise(opened, "JavaException"))
                   ELSE [st |-> opened, resp |-> Response(200, "none", EmptyContent, read)]
              ELSE [st |-> typed,
                    resp |-> Response(415, "none", EmptyContent, "Cannot view file")]

(* ---------------------------------------------------------------------- *)
(* Inputs.                                                                 *)
(* ---------------------------------------------------------------------- *)

RequestCodes == {OPEN_DIRECTORY_REQUEST_CODE, OTHER_REQUEST_CODE}

\* Activity.RESULT_OK and Activity.RESULT_CANCELED
ResultCodes == {RESULT_OK, 0}

\* the flags of a result intent: read (1), write (2) and persistable (64) grants
IntentFlags == {1 + 64, 1 + 2 + 64, 2 + 64}

\* no intent, an intent without data, one whose data is no tree URI, and the
\* picker's answers
Intents ==
    {NullIntent,
     Intent(NullUri, FLAG_GRANT_READ_URI_PERMISSION),
     Intent(UriParse(JunkStr), FLAG_GRANT_READ_URI_PERMISSION)}
    \cup {Intent(UriParse(TreeUriStr(t)), f) : t \in TreeIds, f \in IntentFlags}

\* the rows a provider reports: a file, a directory, and a file that has the
\* directory's name
Rows ==
    {Row("a.txt", "d1", 1500, "text/plain", 10),
     Row("sub", "d2", 0, MIME_TYPE_DIR, 0),
     Row("sub", "d3", 2001, "application/pdf", 7)}

RowSeqs == UNION {[1..n -> Rows] : n \in 0..MaxChildren}

QueryResults ==
    {QueryResult("raise", <<>>), QueryResult("null", <<>>)}
    \cup {QueryResult("rows", rows) : rows \in RowSeqs}

\* the uri argument of GET /: absent, empty, a tree, a directory in a tree, junk
IndexArgs ==
    {None, EmptyStr, JunkStr, DocInTreeUriStr("t1", "d2"), TreeUriStr("t1")}

\* the uri argument of GET /view
ViewArgs == {None, EmptyStr, JunkStr, DocInTreeUriStr("t1", "d1")}

\* what DocumentFile.getType reports
DocTypes == {"application/json", "text/plain", "application/pdf", NullMime}

(* ---------------------------------------------------------------------- *)
(* The state machine.                                                      *)
(* ---------------------------------------------------------------------- *)

Init ==
    /\ prefs = None
    /\ perms = {}
    /\ awaiting = 0
    /\ op = "init"
    /\ args = NoArgs
    /\ resp = Response(0, "none", EmptyContent, "")
    /\ log = <<>>
    /\ repeated = FALSE
    /\ answering = FALSE

\* The platform's answers are drawn only for the calls an operation makes:
\* HasCall(l, name) says that the operation, run with some answers, made the call.
HasCall(l, name) == Calls(l, name) # {}

\* The platform delivers an activity result to Browser.on_activity_result,
\* which is bound to every result of the activity (line 37). awaiting counts
\* the prompts this Browser started; a result with the open-directory request
\* code can also reach a Browser that started none (the process that started
\* the prompt was killed while the picker was open, and the result goes to the
\* new process), so the delivery does not depend on awaiting.
OnActivityResult ==
    \E request \in RequestCodes, result \in ResultCodes, intent \in Intents :
        /\ LET st0 == BrowserState(prefs, perms)
               probe == on_activity_result(request, result, intent, "true", "ok", st0) IN
           \E store \in IF HasCall(probe.log, "commit") THEN StoreOutcomes ELSE {"true"},
              perm \in IF HasCall(probe.log, "takePersistableUriPermission")
                       THEN PermOutcomes ELSE {"ok"} :
               \E st \in {on_activity_result(request, result, intent, store, perm, st0)},
                  these \in {[NoArgs EXCEPT !.request = request, !.result = result,
                                            !.intent = intent]} :
               /\ prefs' = st.prefs
               /\ perms' = st.perms
               /\ awaiting' = IF request = OPEN_DIRECTORY_REQUEST_CODE /\ awaiting > 0
                              THEN awaiting - 1 ELSE awaiting
               /\ answering' = (request = OPEN_DIRECTORY_REQUEST_CODE /\ awaiting > 0)
               /\ repeated' = (op = "on_activity_result" /\ args = these)
               /\ op' = "on_activity_result"
               /\ args' = these
               /\ resp' = Response(0, st.raised, EmptyContent, "")
               /\ log' = st.log

\* GET /open
OpenDirectory ==
    /\ awaiting < MaxPrompts
    /\ \E st \in {open_directory(BrowserState(prefs, perms))} :
        /\ prefs' = st.prefs
        /\ perms' = st.perms
        /\ awaiting' = awaiting + 1
        /\ repeated' = FALSE
        /\ answering' = FALSE
        /\ op' = "open_directory"
        /\ args' = NoArgs
        /\ resp' = Response(204, "none", EmptyContent, "")
        /\ log' = st.log

\* GET /
Index ==
    \E arg \in IndexArgs :
        LET st0 == BrowserState(prefs, perms)
            probe == index(arg, QueryResult("rows", <<>>), st0) IN
        \E q \in IF HasCall(probe.st.log, "query") THEN QueryResults
                 ELSE {QueryResult("rows", <<>>)} :
            \E r \in {index(arg, q, st0)} :
            /\ prefs' = r.st.prefs
            /\ perms' = r.st.perms
            /\ awaiting' = awaiting
            /\ repeated' = FALSE
            /\ answering' = FALSE
            /\ op' = "index"
            /\ args' = [NoArgs EXCEPT !.uri = arg]
            /\ resp' = r.resp
            /\ log' = r.st.log

\* GET /view
ViewFile ==
    \E arg \in ViewArgs :
        LET st0 == BrowserState(prefs, perms)
            probe == view_file(arg, "started", NullMime, "raise", st0) IN
        \E view \in IF HasCall(probe.st.log, "startActivity") THEN ViewOutcomes
                    ELSE {"started"} :
        \E doc_type \in IF view = "ActivityNotFoundException" THEN DocTypes
                        ELSE {NullMime} :
        \E read \in IF HasCall(view_file(arg, view, doc_type, "raise", st0).st.log,
                               "openAssetFileDescriptor")
                    THEN ReadOutcomes ELSE {"raise"} :
            \E r \in {view_file(arg, view, doc_type, read, st0)} :
            /\ prefs' = r.st.prefs
            /\ perms' = r.st.perms
            /\ awaiting' = awaiting
            /\ repeated' = FALSE
            /\ answering' = FALSE
            /\ op' = "view_file"
            /\ args' = [NoArgs EXCEPT !.uri = arg]
            /\ resp' = r.resp
            /\ log' = r.st.log

Next ==
    \/ OnActivityResult
    \/ OpenDirectory
    \/ Index
    \/ ViewFile

Spec == Init /\ [][Next]_vars

(* ---------------------------------------------------------------------- *)
(* Properties.                                                             *)
(* ---------------------------------------------------------------------- *)

\* the arguments of an activity result that answers the open-directory request
\* with RESULT_OK and an intent that carries a URI
Success(a) ==
    /\ a.request = OPEN_DIRECTORY_REQUEST_CODE
    /\ a.result = RESULT_OK
    /\ ~a.intent.null
    /\ ~a.intent.data.null

\* the URI string such a result grants
Granted(a) == a.intent.data.path

\* the granted URI is the URI of a tree
GrantsTree(a) == Success(a) /\ Granted(a) \in {<<"tree", t>> : t \in TreeIds}

\* a log without a write of the default tree, a permission request or a redirect
NoGrantEffects(l) ==
    /\ Calls(l, "putString") = {}
    /\ Calls(l, "commit") = {}
    /\ Calls(l, "takePersistableUriPermission") = {}
    /\ Calls(l, "loadUrl") = {}

\* the URLs a log's redirects load
RedirectTargets(l) == {l[i].uri : i \in Calls(l, "loadUrl")}

\* the provider calls of a log that failed
FailedProviderCalls(l) ==
    {i \in DOMAIN l : l[i].call \in {"fromTreeUri", "query"}
                      /\ l[i].out \in {"raise", "null"}}

\* C1: an activity result whose request code is not the open-directory
\* request code leaves the default tree and the persisted permissions as they
\* were, and writes nothing, requests no permission and loads no URL, whatever
\* its result code and intent are.
C1_MismatchGuard ==
    [][(op' = "on_activity_result" /\ args'.request # OPEN_DIRECTORY_REQUEST_CODE)
        => (prefs' = prefs /\ perms' = perms /\ NoGrantEffects(log')
            /\ resp'.raised = "none")]_vars

\* C1: a result with another request code, RESULT_OK and a tree URI that is not
\* the default tree was delivered.
C1_Witness ==
    /\ op = "on_activity_result"
    /\ args.request # OPEN_DIRECTORY_REQUEST_CODE
    /\ args.result = RESULT_OK
    /\ GrantsTree([args EXCEPT !.request = OPEN_DIRECTORY_REQUEST_CODE])
    /\ prefs # Granted(args)

\* C2: an activity result for the open-directory request whose result code is
\* not RESULT_OK, or whose intent is null, or whose intent carries no URI,
\* changes nothing, requests no permission, loads no URL and raises nothing.
C2_CancellationSilent ==
    [][(/\ op' = "on_activity_result"
        /\ args'.request = OPEN_DIRECTORY_REQUEST_CODE
        /\ (args'.result # RESULT_OK \/ args'.intent.null \/ args'.intent.data.null))
        => (prefs' = prefs /\ perms' = perms /\ NoGrantEffects(log')
            /\ resp'.raised = "none")]_vars

\* C3: after an activity result for the open-directory request with RESULT_OK
\* and a URI, the calls made are in this order: the default tree is written
\* with the granted URI, then the persistable permission is taken for the same
\* URI with the intent's flags masked to the read bit, then the URL of the root
\* listing of the same URI is loaded. A result that raises nothing made all of
\* them; no permission is taken before the write and no URL is loaded before
\* the write and the permission request.
C3_StepsInOrder ==
    (op = "on_activity_result" /\ Success(args)) =>
        LET h == Granted(args)
            read == args.intent.flags % 2
            writes == {j \in Calls(log, "commit") :
                          /\ log[j].uri = h
                          /\ j - 1 \in Calls(log, "putString")
                          /\ log[j - 1].uri = h}
            takes == {k \in Calls(log, "takePersistableUriPermission") :
                          log[k].uri = h /\ log[k].n = read} IN
        /\ resp.raised = "none" =>
              [i \in DOMAIN log |-> log[i].call]
                  = <<"putString", "commit", "takePersistableUriPermission", "loadUrl">>
        /\ writes # {} => prefs = h
        /\ \A k \in Calls(log, "takePersistableUriPermission") :
              k \in takes /\ \E j \in writes : j < k
        /\ \A i \in Calls(log, "loadUrl") :
              /\ log[i].uri = <<"/", "uri">> \o h
              /\ \E j \in writes, k \in takes : j < k /\ k < i /\ log[k].out = "ok"

\* C3: a result with read, write and persistable flags went through all steps.
C3_Witness ==
    /\ op = "on_activity_result"
    /\ GrantsTree(args)
    /\ args.intent.flags = 67
    /\ resp.raised = "none"
    /\ Len(log) = 4
    /\ prefs = Granted(args)

\* C4: an activity result during which commit() reported that the write
\* failed raises, takes no permission and loads no URL.
C4_PersistenceFailureFatal ==
    (op = "on_activity_result"
     /\ \E i \in Calls(log, "commit") : log[i].out = "false")
        => (/\ resp.raised # "none"
            /\ Calls(log, "takePersistableUriPermission") = {}
            /\ Calls(log, "loadUrl") = {})

\* C5: the preferences hold no default tree or one tree URI; a default tree,
\* once there, never goes back to None; an activity result that grants a tree
\* makes that tree the default tree, and every other step (GET /, GET /open,
\* GET /view, any other activity result) leaves the default tree as it is, so
\* the default tree is always the tree of the latest grant.
C5_SingleGrant ==
    [][/\ prefs' \in {None} \cup {<<"tree", t>> : t \in TreeIds}
       /\ prefs # None => prefs' # None
       /\ IF op' = "on_activity_result" /\ GrantsTree(args')
          THEN prefs' = Granted(args')
          ELSE prefs' = prefs]_vars

\* C5: tree t2 was granted after tree t1 had been granted and its permission
\* persisted; t2 is the default tree.
C5_Witness ==
    /\ op = "on_activity_result"
    /\ GrantsTree(args)
    /\ Granted(args) = <<"tree", "t2">>
    /\ <<"tree", "t1">> \in perms
    /\ prefs = <<"tree", "t2">>

\* C6: an activity result that grants a tree, delivered again with the same
\* arguments, leaves the default tree it left the first time; when neither
\* delivery raises, both load the same URL, the root listing of that tree.
C6_Idempotent ==
    [][(/\ op = "on_activity_result"
        /\ op' = "on_activity_result"
        /\ args' = args
        /\ GrantsTree(args))
        => (/\ prefs' = prefs
            /\ prefs' = Granted(args)
            /\ (resp.raised = "none" /\ resp'.raised = "none")
                  => (/\ RedirectTargets(log') = RedirectTargets(log)
                      /\ RedirectTargets(log') = {<<"/", "uri">> \o Granted(args)}))]_vars

\* C6: a granting result was delivered a second time and raised nothing.
C6_Witness ==
    /\ repeated
    /\ op = "on_activity_result"
    /\ GrantsTree(args)
    /\ resp.raised = "none"
    /\ prefs = Granted(args)
    /\ RedirectTargets(log) # {}

C8_NoHandleRender ==
    (op = "index" /\ args.uri = None /\ prefs = None) =>
        /\ resp.status = 200
        /\ resp.raised = "none"
        /\ resp.content.empty
        /\ resp.content.directories = <<>>
        /\ resp.content.files = <<>>
        /\ Calls(log, "fromTreeUri") = {}
        /\ Calls(log, "query") = {}

\* C8: such a request was answered.
C8_Witness ==
    /\ op = "index"
    /\ args.uri = None
    /\ prefs = None
    /\ resp.status = 200

C10_Classification ==
    (op = "index" /\ resp.status = 200 /\ ~resp.content.empty) =>
        LET rows == log[CHOOSE i \in Calls(log, "query") : TRUE].rows
            dirs == resp.content.directories
            files == resp.content.files
            In(list, row) ==
                Cardinality({j \in DOMAIN list :
                    list[j].name = row.name /\ list[j].uri[Len(list[j].uri)] = row.id})
            Times(row) == Cardinality({i \in DOMAIN rows : rows[i] = row}) IN
        /\ Len(dirs) + Len(files) = Len(rows)
        /\ \A i \in DOMAIN rows :
              IF rows[i].mime_type = "vnd.android.document/directory"
              THEN In(dirs, rows[i]) = Times(rows[i]) /\ In(files, rows[i]) = 0
              ELSE In(files, rows[i]) = Times(rows[i]) /\ In(dirs, rows[i]) = 0

\* C10: a listing with a directory and a file of the same name.
C10_Witness ==
    /\ op = "index"
    /\ resp.status = 200
    /\ Len(resp.content.directories) = 1
    /\ Len(resp.content.files) = 1
    /\ resp.content.directories[1].name = resp.content.files[1].name

\* the outcome of the one call of a name in a log that has it
OutcomeOf(l, name) == l[CHOOSE i \in Calls(l, name) : TRUE].out

\* C11: GET /view with a uri first asks the platform to start a viewer, once.
\* When the viewer started, the response is 204 and the MIME type is not asked
\* and the content is not opened. The MIME type is asked only when the platform
\* found no viewer. The content is opened only when, on top of that, the MIME
\* type is application/json or text/plain, and then the response is 200 with
\* the text read (500 when the read fails). For every other MIME type the
\* response is 415 "Cannot view file", and the content is not opened.
C11_ViewPolicy ==
    (op = "view_file" /\ args.uri # None) =>
        /\ Cardinality(Calls(log, "startActivity")) = 1
        /\ log[1].call = "startActivity"
        /\ log[1].uri = args.uri
        /\ log[1].out = "started" =>
              /\ resp.status = 204
              /\ resp.body = ""
              /\ log = <<log[1]>>
        /\ HasCall(log, "getType") <=> log[1].out = "ActivityNotFoundException"
        /\ HasCall(log, "openAssetFileDescriptor") <=>
              /\ HasCall(log, "getType")
              /\ OutcomeOf(log, "getType") \in {"application/json", "text/plain"}
        /\ resp.status = 200 <=>
              /\ HasCall(log, "openAssetFileDescriptor")
              /\ OutcomeOf(log, "openAssetFileDescriptor") = "ok"
        /\ resp.status = 200 => resp.body \in ReadOutcomes \ {"raise"}
        /\ resp.status = 415 <=>
              /\ HasCall(log, "getType")
              /\ OutcomeOf(log, "getType") \notin {"application/json", "text/plain"}
        /\ resp.status = 415 => resp.body = "Cannot view file"
        /\ (HasCall(log, "getType") /\ resp.raised = "none") => resp.status \in {200, 415}

\* C11: no viewer was found for a PDF document, and the answer is 415 without
\* the content having been opened.
C11_Witness ==
    /\ op = "view_file"
    /\ args.uri = DocInTreeUriStr("t1", "d1")
    /\ HasCall(log, "getType")
    /\ OutcomeOf(log, "getType") = "application/pdf"
    /\ resp.status = 415
    /\ ~HasCall(log, "openAssetFileDescriptor")

\* C12: GET /view without a uri argument answers 400 with the body
\* "No uri argument specified"; it calls nothing of the platform (no attempt to
\* start a viewer, no MIME type asked, no content opened) and leaves the
\* default tree and the persisted permissions as they were.
C12_MissingUriRejected ==
    [][(op' = "view_file" /\ args'.uri = None) =>
        /\ resp'.status = 400
        /\ resp'.body = "No uri argument specified"
        /\ resp'.raised = "none"
        /\ log' = <<>>
        /\ prefs' = prefs
        /\ perms' = perms]_vars

\* C12: GET /view without uri was answered 400 while a default tree is set.
C12_Witness ==
    /\ op = "view_file"
    /\ args.uri = None
    /\ resp.status = 400
    /\ prefs # None

\* the calls that hand a URI to the platform or to the document provider
ProviderCalls(l) ==
    {i \in DOMAIN l : l[i].call \in {"startActivity", "fromTreeUri", "query", "getType",
                                     "openAssetFileDescriptor"}}

\* C13: GET / and GET /view answer a uri argument that is empty or is not the
\* URI of a document with 400, and call neither the platform nor the document
\* provider with it.
C13_InvalidHandleRejected ==
    (op \in {"index", "view_file"} /\ args.uri \in {EmptyStr, JunkStr}) =>
        /\ resp.status = 400
        /\ ProviderCalls(log) = {}

\* C14: every GET /open starts one consent prompt with the open-directory
\* request code and answers 204 with an empty body at once, without reading or
\* changing the default tree; it does so too while earlier prompts are still
\* open (the prompt is one more to answer), and open prompts never keep it
\* from running.
C14_FireAndForget ==
    /\ [][op' = "open_directory" =>
            /\ log' = <<Call("startActivityForResult", None, 61726, "ok")>>
            /\ resp' = Response(204, "none", EmptyContent, "")
            /\ awaiting' = awaiting + 1
            /\ prefs' = prefs
            /\ perms' = perms]_vars
    /\ [](awaiting < MaxPrompts => ENABLED OpenDirectory)

\* C14: GET /open was answered while an earlier prompt was still open.
C14_Witness ==
    /\ op = "open_directory"
    /\ awaiting >= 2
    /\ resp.status = 204

\* a step that writes the default tree
WritesGrant == prefs' # prefs \/ HasCall(log', "putString")

\* C15: the default tree is written only by an activity result that answers a
\* consent prompt this Browser started and that is still open.
C15_OnlyWhenOutstanding == [][WritesGrant => answering']_vars

\* C15: the default tree is written by exactly the activity results that carry
\* the open-directory request code, RESULT_OK and the URI of a tree, and the
\* value written is that URI. Browser keeps no record of the prompts it
\* started: such a result writes the default tree whether or not a prompt is
\* open, and no other step writes it.
C15_WrittenByMatchingSuccess ==
    [][/\ WritesGrant <=> (op' = "on_activity_result" /\ GrantsTree(args'))
       /\ WritesGrant => prefs' = Granted(args')]_vars

\* C15: a successful result was delivered a second time, with no prompt open,
\* and has written the default tree again.
C15_Witness ==
    /\ op = "on_activity_result"
    /\ GrantsTree(args)
    /\ ~answering
    /\ repeated
    /\ awaiting = 0
    /\ prefs = Granted(args)
    /\ HasCall(log, "putString")

\* the rows of a query result that are directories, in the result's order
DirectoryRows(rows) ==
    SelectSeq(rows, LAMBDA row : row.mime_type = "vnd.android.document/directory")

\* the rows of a query result that are not directories, in the result's order
FileRows(rows) ==
    SelectSeq(rows, LAMBDA row : row.mime_type # "vnd.android.document/directory")

\* C16: a listing GET / renders comes from one query, the query of the
\* children of the document it resolved, and no other document is queried
\* (nothing is listed recursively). content.directories is the directory rows
\* of that query in the query's order and content.files is its other rows in
\* the query's order, one entry for each row, each with the row's name and
\* with the URI of the row's document in the tree.
C16_ProviderOrder ==
    (op = "index" /\ resp.status = 200 /\ ~resp.content.empty) =>
        /\ Cardinality(Calls(log, "query")) = 1
        /\ Cardinality(Calls(log, "fromTreeUri")) = 1
        /\ LET query == log[CHOOSE i \in Calls(log, "query") : TRUE]
               tree == log[CHOOSE i \in Calls(log, "fromTreeUri") : TRUE].uri
               dirs == DirectoryRows(query.rows)
               files == FileRows(query.rows)
               Same(item, row) ==
                   /\ item.name = row.name
                   /\ item.uri = <<"tree", tree[2], "document", row.id>> IN
           /\ query.uri[Len(query.uri)] = "children"
           /\ query.uri[Len(query.uri) - 1] = resp.content.name
           /\ Len(resp.content.directories) = Len(dirs)
           /\ \A i \in DOMAIN dirs : Same(resp.content.directories[i], dirs[i])
           /\ Len(resp.content.files) = Len(files)
           /\ \A i \in DOMAIN files :
                 /\ Same(resp.content.files[i], files[i])
                 /\ resp.content.files[i].size = files[i].size

\* C16: a listing of two files in the order of the query, which returned
\* document d3 before document d1.
C16_Witness ==
    /\ op = "index"
    /\ resp.status = 200
    /\ Len(resp.content.files) = 2
    /\ resp.content.files[1].uri[4] = "d3"
    /\ resp.content.files[2].uri[4] = "d1"

\* C17: GET /view with a uri asks the platform once to start a viewer, with
\* read permission for the URI. Browser.view_file is true exactly when the
\* viewer started (the answer is 204 then); it is false only when startActivity
\* raised ActivityNotFoundException, and only then is the MIME type asked;
\* every other exception of startActivity leaves the handler (the request
\* fails with 500) and nothing more is called.
C17_ExternalView ==
    (op = "view_file" /\ args.uri # None) =>
        LET start == log[1] IN
        /\ start = Call("startActivity", args.uri, 1, start.out)
        /\ start.out = "started" <=> resp.status = 204
        /\ start.out = "ActivityNotFoundException" <=> HasCall(log, "getType")
        /\ start.out \notin {"started", "ActivityNotFoundException"} =>
              /\ resp.status = 500
              /\ resp.raised = "JavaException"
              /\ log = <<start>>
        /\ HasCall(log, "getType") => log[2].call = "getType"

\* C17: startActivity raised an exception other than ActivityNotFoundException
\* and the request failed without the MIME type having been asked.
C17_Witness ==
    /\ op = "view_file"
    /\ args.uri = DocInTreeUriStr("t1", "d1")
    /\ log[1].out = "SecurityException"
    /\ resp.status = 500
    /\ ~HasCall(log, "getType")

\* C18: GET / (with or without uri), GET /open and GET /view leave the
\* default tree and the persisted permissions as they were and call neither
\* putString nor commit, whatever they answer; only an activity result
\* changes the default tree. So a GET / without uri resolves the default tree
\* as the last activity result left it, whatever was browsed in between.
C18_HttpReadOnly ==
    [][/\ op' \in {"index", "open_directory", "view_file"} =>
            /\ prefs' = prefs
            /\ perms' = perms
            /\ ~HasCall(log', "putString")
            /\ ~HasCall(log', "commit")
       /\ prefs' # prefs => op' = "on_activity_result"
       /\ (op' = "index" /\ args'.uri = None /\ prefs # None) =>
            /\ HasCall(log', "fromTreeUri")
            /\ OutcomeOf(log', "fromTreeUri") = "ok"
            /\ log'[CHOOSE i \in Calls(log', "fromTreeUri") : TRUE].uri = prefs]_vars

\* C18: GET / rendered the listing of an explicit uri that is not the default
\* tree, and the default tree is still set.
C18_Witness ==
    /\ op = "index"
    /\ Truthy(args.uri)
    /\ resp.status = 200
    /\ prefs # None
    /\ prefs # args.uri
    /\ ~HasCall(log, "getString")

\* the last operation was an activity result in which
\* takePersistableUriPermission raised
PermissionFailed ==
    /\ op = "on_activity_result"
    /\ HasCall(log, "takePersistableUriPermission")
    /\ OutcomeOf(log, "takePersistableUriPermission") = "raise"

\* C19: when takePersistableUriPermission raises, the default tree has been
\* written before it and stays the chosen URI: the exception leaves
\* on_activity_result, no URL is loaded and no permission is persisted, and
\* nothing writes the former default tree back. A GET / without uri that
\* comes next resolves the chosen URI, although its permission was not
\* persisted.
C19_NoRollback ==
    [][/\ PermissionFailed' =>
            /\ log'[1].call = "putString"
            /\ log'[1].uri = Granted(args')
            /\ prefs' = Granted(args')
            /\ perms' = perms
            /\ resp'.raised # "none"
            /\ ~HasCall(log', "loadUrl")
            /\ Cardinality(Calls(log', "putString")) = 1
       /\ (PermissionFailed /\ op' = "index" /\ args'.uri = None) =>
            /\ HasCall(log', "fromTreeUri")
            /\ log'[CHOOSE i \in Calls(log', "fromTreeUri") : TRUE].uri = Granted(args)]_vars

\* C19: the permission for a newly chosen tree could not be persisted; the
\* new tree is the default tree, while the only persisted permission is the one
\* of the tree chosen before.
C19_Witness ==
    /\ PermissionFailed
    /\ prefs = Granted(args)
    /\ perms # {}
    /\ prefs \notin perms
    /\ resp.raised # "none"

====
